---- MODULE Spec2Model ----
(***************************************************************************)
(* Model of xknx.io.request_response.RequestResponse: a request is sent    *)
(* over a shared udp client, the answer is awaited on an asyncio.Event     *)
(* that is set by response_rec_callback or by the timeout callback.        *)
(*                                                                         *)
(* The asyncio event loop is single threaded: a coroutine runs without     *)
(* interruption between two suspension points.  start() is modelled one    *)
(* statement at a time; `running` names the transaction whose coroutine    *)
(* holds the loop, and callbacks of the loop (datagram received, timer,    *)
(* task wake-up, task cancellation) only run when running = NoTx.          *)
(***************************************************************************)
EXTENDS Integers, Sequences, FiniteSets, TLC

\* ---- bounds ----
MaxFrames == 2
MaxStarts == 3

\* Two RequestResponse instances share one udp client.
Txs == {"tx1", "tx2"}
NoTx == "NoTx"

\* ---- xknx.knxip names used by request_response.py ----
E_NO_ERROR == "E_NO_ERROR"
E_CONNECTION_TABLE_FULL == "E_CONNECTION_TABLE_FULL"
ErrorCode == {E_NO_ERROR, E_CONNECTION_TABLE_FULL}

ResponseClasses == {"ConnectResponse", "DisconnectResponse"}

service_type(cls) ==
    IF cls = "ConnectResponse" THEN "CONNECT_RESPONSE" ELSE "DISCONNECT_RESPONSE"

ServiceTypes == {service_type(c) : c \in ResponseClasses}

\* An inbound frame: the service type of its header, the class of its body
\* and the body's status code.  id is the position in the receive stream.
KNXIPFrames ==
    [service_type : ServiceTypes, body : ResponseClasses,
     status_code : ErrorCode, id : 1..MaxFrames]

isinstance(body, cls) == body = cls

VARIABLES
    awaited_response_class, \* [Txs -> ResponseClasses]
    response_received_or_timeout, \* [Txs -> BOOLEAN], the asyncio.Event
    success,                \* [Txs -> BOOLEAN]
    timeout_handle,         \* [Txs -> {"None","scheduled","fired","cancelled"}]
    callb,                  \* [Txs -> route], local of start()
    callbacks,              \* routes registered in the udp client
    pc,                     \* [Txs -> position of start()]
    running,                \* transaction whose coroutine holds the loop
    starts,                 \* number of start() calls, all instances
    sent,                   \* [Txs -> number of frames given to udpclient.send]
    received,               \* number of inbound frames dispatched
    delivered,              \* [Txs -> Seq of frames given to response_rec_callback]
    hooks,                  \* [Txs -> Seq of hook invocations]
    device,                 \* the xknx light device of a KNXLight
    request,                \* the last service call on the KNXLight
    invoked,                \* device methods invoked by that call
    raised                  \* that call ended with an exception

vars == <<awaited_response_class, response_received_or_timeout, success,
          timeout_handle, callb, callbacks, pc, running, starts, sent,
          received, delivered, hooks>>

lightvars == <<device, request, invoked, raised>>

NoRoute == [callback |-> NoTx, service_types |-> {}]

\* ---- homeassistant/components/light/knx.py ----
DEFAULT_COLOR == <<255, 255, 255>>
DEFAULT_BRIGHTNESS == 255

\* None is the empty tuple, a present value v is <<v>>
None == <<>>

Brightnesses == {128, 255}
RGBColors == {<<255, 0, 0>>, <<0, 0, 255>>, <<255, 255, 255>>}
HSColors == {<<0, 100>>, <<240, 100>>}

\* keyword arguments of light.turn_on: ATTR_BRIGHTNESS and ATTR_HS_COLOR are
\* present or not
Kwargs ==
    [brightness : {None} \cup {<<b>> : b \in Brightnesses},
     hs_color : {None} \cup {<<c>> : c \in HSColors}]

NoRequest == [service |-> "none", brightness |-> None, hs_color |-> None]

Devices ==
    [supports_brightness : BOOLEAN, supports_color : BOOLEAN,
     current_brightness : {None} \cup {<<b>> : b \in Brightnesses},
     current_color : {None} \cup {<<c>> : c \in RGBColors}]

\* no KNXLight is involved in the runs of RequestResponse
LightIdle ==
    /\ device = [supports_brightness |-> FALSE, supports_color |-> FALSE,
                 current_brightness |-> None, current_color |-> None]
    /\ request = NoRequest
    /\ invoked = <<>>
    /\ raised = FALSE

\* RequestResponse.__init__; the first instance awaits ConnectResponse, the
\* second either the same class or the other one (the classes are
\* interchangeable).
Init ==
    /\ awaited_response_class \in
         {a \in [Txs -> ResponseClasses] : a["tx1"] = "ConnectResponse"}
    /\ response_received_or_timeout = [t \in Txs |-> FALSE]
    /\ success = [t \in Txs |-> FALSE]
    /\ timeout_handle = [t \in Txs |-> "None"]
    /\ callb = [t \in Txs |-> NoRoute]
    /\ callbacks = {}
    /\ pc = [t \in Txs |-> "idle"]
    /\ running = NoTx
    /\ starts = 0
    /\ sent = [t \in Txs |-> 0]
    /\ received = 0
    /\ delivered = [t \in Txs |-> <<>>]
    /\ hooks = [t \in Txs |-> <<>>]
    /\ LightIdle

\* ---- udp client: registry of callbacks ----
\* (variant: the callback is registered for every service type)
register_callback_all(t) == [callback |-> t, service_types |-> ServiceTypes]

register_callback(t) ==
    [callback |-> t,
     service_types |-> {service_type(awaited_response_class[t])}]

unregister_callback(cbs, route) == cbs \ {route}

\* ---- asyncio.TimerHandle.cancel ----
\* (variant: cancelling has no effect on the handle)
cancel_ignored(handle) == handle

cancel(handle) == IF handle = "scheduled" THEN "cancelled" ELSE handle

\* ---- start(), statement by statement ----

\* (variant: start() clears the event before it registers)
Start_reset(t) ==
    /\ running = NoTx
    /\ pc[t] \in {"idle", "returned"}
    /\ starts < MaxStarts
    /\ starts' = starts + 1
    /\ callb' = [callb EXCEPT ![t] = register_callback(t)]
    /\ callbacks' = callbacks \cup {register_callback(t)}
    /\ pc' = [pc EXCEPT ![t] = "registered"]
    /\ running' = t
    /\ response_received_or_timeout' =
           [response_received_or_timeout EXCEPT ![t] = FALSE]
    /\ UNCHANGED <<awaited_response_class, success, timeout_handle, sent,
                   received, delivered, hooks>>
    /\ UNCHANGED lightvars

\* (variant: start() does not register its callback before sending)
Start_unrouted(t) ==
    /\ running = NoTx
    /\ pc[t] \in {"idle", "returned"}
    /\ starts < MaxStarts
    /\ starts' = starts + 1
    /\ callb' = [callb EXCEPT ![t] = register_callback(t)]
    /\ pc' = [pc EXCEPT ![t] = "registered"]
    /\ running' = t
    /\ UNCHANGED <<awaited_response_class, response_received_or_timeout,
                   success, timeout_handle, sent, received, delivered, hooks,
                   callbacks>>
    /\ UNCHANGED lightvars

\* start(): udpclient.register_callback(...)
Start(t) ==
    /\ running = NoTx
    /\ pc[t] \in {"idle", "returned"}
    /\ starts < MaxStarts
    /\ starts' = starts + 1
    /\ callb' = [callb EXCEPT ![t] = register_callback(t)]
    /\ callbacks' = callbacks \cup {register_callback(t)}
    /\ pc' = [pc EXCEPT ![t] = "registered"]
    /\ running' = t
    /\ UNCHANGED <<awaited_response_class, response_received_or_timeout,
                   success, timeout_handle, sent, received, delivered, hooks>>
    /\ UNCHANGED lightvars

\* send_request(): the frame is built and handed to udpclient.send, or
\* create_knxipframe / normalize / send raises and start() ends with it.
send_request(t) ==
    /\ running = t
    /\ pc[t] = "registered"
    /\ \/ /\ sent' = [sent EXCEPT ![t] = @ + 1]
          /\ pc' = [pc EXCEPT ![t] = "sent"]
          /\ UNCHANGED running
       \/ /\ pc' = [pc EXCEPT ![t] = "raised"]
          /\ running' = NoTx
          /\ UNCHANGED sent
    /\ UNCHANGED <<awaited_response_class, response_received_or_timeout,
                   success, timeout_handle, callb, callbacks, starts,
                   received, delivered, hooks>>
    /\ UNCHANGED lightvars

\* (variant: the handle returned by call_later is not kept)
start_timeout_lost(t) ==
    /\ running = t
    /\ pc[t] = "sent"
    /\ pc' = [pc EXCEPT ![t] = "armed"]
    /\ UNCHANGED <<awaited_response_class, response_received_or_timeout,
                   success, callb, callbacks, running, starts, sent,
                   received, delivered, hooks, timeout_handle>>
    /\ UNCHANGED lightvars

\* start_timeout(): loop.call_later(timeout_in_seconds, self.timeout)
start_timeout(t) ==
    /\ running = t
    /\ pc[t] = "sent"
    /\ timeout_handle' = [timeout_handle EXCEPT ![t] = "scheduled"]
    /\ pc' = [pc EXCEPT ![t] = "armed"]
    /\ UNCHANGED <<awaited_response_class, response_received_or_timeout,
                   success, callb, callbacks, running, starts, sent,
                   received, delivered, hooks>>
    /\ UNCHANGED lightvars

\* response_received_or_timeout.wait(): returns at once when the event is
\* set, suspends the coroutine otherwise.
wait(t) ==
    /\ running = t
    /\ pc[t] = "armed"
    /\ IF response_received_or_timeout[t]
         THEN /\ pc' = [pc EXCEPT ![t] = "woken"]
              /\ UNCHANGED running
         ELSE /\ pc' = [pc EXCEPT ![t] = "waiting"]
              /\ running' = NoTx
    /\ UNCHANGED <<awaited_response_class, response_received_or_timeout,
                   success, timeout_handle, callb, callbacks, starts, sent,
                   received, delivered, hooks>>
    /\ UNCHANGED lightvars

\* The loop wakes the task that waits on the event once the event is set.
resume(t) ==
    /\ running = NoTx
    /\ pc[t] = "waiting"
    /\ response_received_or_timeout[t]
    /\ pc' = [pc EXCEPT ![t] = "woken"]
    /\ running' = t
    /\ UNCHANGED <<awaited_response_class, response_received_or_timeout,
                   success, timeout_handle, callb, callbacks, starts, sent,
                   received, delivered, hooks>>
    /\ UNCHANGED lightvars

\* stop_timeout(): self.timeout_handle.cancel()
stop_timeout(t) ==
    /\ running = t
    /\ pc[t] = "woken"
    /\ timeout_handle' = [timeout_handle EXCEPT ![t] = cancel(@)]
    /\ pc' = [pc EXCEPT ![t] = "stopped"]
    /\ UNCHANGED <<awaited_response_class, response_received_or_timeout,
                   success, callb, callbacks, running, starts, sent,
                   received, delivered, hooks>>
    /\ UNCHANGED lightvars

\* (variant: start() returns without unregistering its callback)
Unregister_skipped(t) ==
    /\ running = t
    /\ pc[t] = "stopped"
    /\ pc' = [pc EXCEPT ![t] = "returned"]
    /\ running' = NoTx
    /\ UNCHANGED <<awaited_response_class, response_received_or_timeout,
                   success, timeout_handle, callb, starts, sent, received,
                   delivered, hooks, callbacks>>
    /\ UNCHANGED lightvars

\* start(): udpclient.unregister_callback(callb), then start() returns
Unregister(t) ==
    /\ running = t
    /\ pc[t] = "stopped"
    /\ callbacks' = unregister_callback(callbacks, callb[t])
    /\ pc' = [pc EXCEPT ![t] = "returned"]
    /\ running' = NoTx
    /\ UNCHANGED <<awaited_response_class, response_received_or_timeout,
                   success, timeout_handle, callb, starts, sent, received,
                   delivered, hooks>>
    /\ UNCHANGED lightvars

\* The task running start() is cancelled while suspended in wait():
\* CancelledError is raised at the yield from of the wait.
CancelTask(t) ==
    /\ running = NoTx
    /\ pc[t] = "waiting"
    /\ pc' = [pc EXCEPT ![t] = "cancelled"]
    /\ UNCHANGED <<awaited_response_class, response_received_or_timeout,
                   success, timeout_handle, callb, callbacks, running,
                   starts, sent, received, delivered, hooks>>
    /\ UNCHANGED lightvars

\* (variant: the timeout callback also resets the success flag)
timeout_failing(t) ==
    /\ running = NoTx
    /\ timeout_handle[t] = "scheduled"
    /\ timeout_handle' = [timeout_handle EXCEPT ![t] = "fired"]
    /\ response_received_or_timeout' =
           [response_received_or_timeout EXCEPT ![t] = TRUE]
    /\ success' = [success EXCEPT ![t] = FALSE]
    /\ UNCHANGED <<awaited_response_class, callb, callbacks, pc,
                   running, starts, sent, received, delivered, hooks>>
    /\ UNCHANGED lightvars

\* (variant: the timeout callback does not set the event)
timeout_silent(t) ==
    /\ running = NoTx
    /\ timeout_handle[t] = "scheduled"
    /\ timeout_handle' = [timeout_handle EXCEPT ![t] = "fired"]
    /\ UNCHANGED <<awaited_response_class, success, callb, callbacks, pc,
                   running, starts, sent, received, delivered, hooks,
                   response_received_or_timeout>>
    /\ UNCHANGED lightvars

\* timeout(): called by the loop when the scheduled handle is due
timeout(t) ==
    /\ running = NoTx
    /\ timeout_handle[t] = "scheduled"
    /\ timeout_handle' = [timeout_handle EXCEPT ![t] = "fired"]
    /\ response_received_or_timeout' =
           [response_received_or_timeout EXCEPT ![t] = TRUE]
    /\ UNCHANGED <<awaited_response_class, success, callb, callbacks, pc,
                   running, starts, sent, received, delivered, hooks>>
    /\ UNCHANGED lightvars

\* ---- response_rec_callback(knxipframe, _) ----
\* (variant: the isinstance check is missing)
Understood_any(t, f) == TRUE

\* (variant: a frame is only accepted by the instance it is correlated with)
Understood_correlated(t, f) ==
    /\ isinstance(f.body, awaited_response_class[t])
    /\ (f.id % 2 = 1) <=> (t = "tx1")

Understood(t, f) == isinstance(f.body, awaited_response_class[t])

rrc_event(t, f) ==
    IF Understood(t, f) THEN TRUE ELSE response_received_or_timeout[t]

\* (variant: the status code is not looked at)
rrc_success_any_status(t, f) ==
    IF isinstance(f.body, awaited_response_class[t]) THEN TRUE ELSE success[t]

\* (variant: the success flag is never set)
rrc_success_never(t, f) == success[t]

rrc_success(t, f) ==
    IF Understood(t, f) /\ f.status_code = E_NO_ERROR THEN TRUE ELSE success[t]

on_success_hook(f) == [hook |-> "on_success_hook", frame |-> f]

on_error_hook(f) == [hook |-> "on_error_hook", frame |-> f]

\* (variant: no hook is called)
rrc_hooks_none(t, f) == hooks[t]

rrc_hooks(t, f) ==
    IF ~Understood(t, f) THEN hooks[t]
    ELSE IF f.status_code = E_NO_ERROR
           THEN Append(hooks[t], on_success_hook(f))
           ELSE Append(hooks[t], on_error_hook(f))

\* The udp client hands the frame to every registered callback whose
\* service types contain the frame's service type.
Routed(t, f) ==
    \E r \in callbacks : r.callback = t /\ f.service_type \in r.service_types

Dispatch(f) ==
    /\ running = NoTx
    /\ received < MaxFrames
    /\ f.id = received + 1
    /\ received' = received + 1
    /\ response_received_or_timeout' =
         [t \in Txs |-> IF Routed(t, f) THEN rrc_event(t, f)
                        ELSE response_received_or_timeout[t]]
    /\ success' =
         [t \in Txs |-> IF Routed(t, f) THEN rrc_success(t, f) ELSE success[t]]
    /\ hooks' =
         [t \in Txs |-> IF Routed(t, f) THEN rrc_hooks(t, f) ELSE hooks[t]]
    /\ delivered' =
         [t \in Txs |-> IF Routed(t, f) THEN Append(delivered[t], f)
                        ELSE delivered[t]]
    /\ UNCHANGED <<awaited_response_class, timeout_handle, callb, callbacks,
                   pc, running, starts, sent>>
    /\ UNCHANGED lightvars

Next ==
    \/ \E t \in Txs : Start(t)
    \/ \E t \in Txs : send_request(t)
    \/ \E t \in Txs : start_timeout(t)
    \/ \E t \in Txs : wait(t)
    \/ \E t \in Txs : resume(t)
    \/ \E t \in Txs : stop_timeout(t)
    \/ \E t \in Txs : Unregister(t)
    \/ \E t \in Txs : CancelTask(t)
    \/ \E t \in Txs : timeout(t)
    \/ \E f \in KNXIPFrames : Dispatch(f)

Spec == Init /\ [][Next]_vars

\* The loop runs every ready callback and every due timer, and a running
\* coroutine proceeds to its next suspension point.
Fairness ==
    \A t \in Txs :
        /\ WF_vars(send_request(t))
        /\ WF_vars(start_timeout(t))
        /\ WF_vars(wait(t))
        /\ WF_vars(resume(t))
        /\ WF_vars(stop_timeout(t))
        /\ WF_vars(Unregister(t))
        /\ WF_vars(timeout(t))

FairSpec == Spec /\ Fairness

TypeOK ==
    /\ pc \in [Txs -> {"idle", "registered", "sent", "armed", "waiting",
                       "woken", "stopped", "returned", "raised", "cancelled"}]
    /\ running \in Txs \cup {NoTx}
    /\ success \in [Txs -> BOOLEAN]
    /\ response_received_or_timeout \in [Txs -> BOOLEAN]
    /\ timeout_handle \in [Txs -> {"None", "scheduled", "fired", "cancelled"}]
    /\ received \in 0..MaxFrames

\* ---- KNXLight ----

\* homeassistant.util.color.color_RGB_to_hs, on the colours of RGBColors
color_RGB_to_hs(rgb) ==
    IF rgb[1] = rgb[2] /\ rgb[2] = rgb[3] THEN <<0, 0>>
    ELSE IF rgb[1] > 0 THEN <<0, 100>> ELSE <<240, 100>>

\* homeassistant.util.color.color_hsv_to_RGB(iH, iS, iV) with
\* iV = brightness * 100 / 255, on the colours of HSColors and white
color_hsv_to_RGB(hs, bright) ==
    IF hs[2] = 0 THEN <<bright, bright, bright>>
    ELSE IF hs[1] = 0 THEN <<bright, 0, 0>> ELSE <<0, 0, bright>>

Max3(rgb) ==
    IF rgb[1] >= rgb[2] /\ rgb[1] >= rgb[3] THEN rgb[1]
    ELSE IF rgb[2] >= rgb[3] THEN rgb[2] ELSE rgb[3]

\* KNXLight.brightness
brightness ==
    IF device.supports_color
      THEN IF device.current_color = None THEN None
           ELSE <<Max3(device.current_color[1])>>
      ELSE IF device.supports_brightness THEN device.current_brightness
           ELSE None

\* KNXLight.hs_color
hs_color ==
    IF device.supports_color
      THEN IF device.current_color = None THEN None
           ELSE <<color_RGB_to_hs(device.current_color[1])>>
      ELSE None

\* the values async_turn_on works with after the kwargs and the defaults
\* were applied
turn_on_brightness(kw) ==
    IF kw.brightness # None THEN kw.brightness[1]
    ELSE IF brightness # None THEN brightness[1] ELSE DEFAULT_BRIGHTNESS

turn_on_hs_color(kw) ==
    IF kw.hs_color # None THEN kw.hs_color[1]
    ELSE IF hs_color # None THEN hs_color[1] ELSE DEFAULT_COLOR

\* the branch async_turn_on takes
turn_on_path(kw) ==
    IF device.supports_brightness
         /\ (kw.brightness # None /\ kw.hs_color = None)
      THEN "set_brightness"
      ELSE IF device.supports_color
                /\ (kw.brightness # None \/ kw.hs_color # None)
             THEN "set_color"
             ELSE "set_on"

\* color_hsv_to_RGB(*hs_color, brightness * 100 / 255) takes three
\* arguments: with a hs_color of three elements the call is a TypeError and
\* device.set_color is not reached.
set_color_raises(kw) == Len(turn_on_hs_color(kw)) + 1 # 3

\* KNXLight.async_turn_on(**kwargs)
async_turn_on(kw) ==
    /\ request' = [service |-> "turn_on", brightness |-> kw.brightness,
                   hs_color |-> kw.hs_color]
    /\ IF turn_on_path(kw) = "set_brightness"
         THEN /\ invoked' = <<[method |-> "set_brightness",
                               arg |-> <<turn_on_brightness(kw)>>]>>
              /\ raised' = FALSE
         ELSE IF turn_on_path(kw) = "set_color"
           THEN IF set_color_raises(kw)
                  THEN invoked' = <<>> /\ raised' = TRUE
                  ELSE /\ invoked' =
                            <<[method |-> "set_color",
                               arg |-> color_hsv_to_RGB(turn_on_hs_color(kw),
                                                        turn_on_brightness(kw))]>>
                       /\ raised' = FALSE
           ELSE /\ invoked' = <<[method |-> "set_on", arg |-> <<>>]>>
                /\ raised' = FALSE
    /\ UNCHANGED device
    /\ UNCHANGED vars

\* KNXLight.async_turn_off(**kwargs)
async_turn_off ==
    /\ request' = [service |-> "turn_off", brightness |-> None,
                   hs_color |-> None]
    /\ invoked' = <<[method |-> "set_off", arg |-> <<>>]>>
    /\ raised' = FALSE
    /\ UNCHANGED device
    /\ UNCHANGED vars

\* The device processes a state telegram from the bus (and calls
\* after_update_callback): its current brightness and colour change.
device_updated(b, c) ==
    /\ device' = [device EXCEPT !.current_brightness = b, !.current_color = c]
    /\ device' # device
    /\ UNCHANGED <<request, invoked, raised>>
    /\ UNCHANGED vars

\* KNXLight.__init__ with a device of any capabilities, state not yet known
LightInit ==
    /\ device \in {d \in Devices :
                     d.current_brightness = None /\ d.current_color = None}
    /\ request = NoRequest
    /\ invoked = <<>>
    /\ raised = FALSE
    /\ awaited_response_class = [t \in Txs |-> "ConnectResponse"]
    /\ response_received_or_timeout = [t \in Txs |-> FALSE]
    /\ success = [t \in Txs |-> FALSE]
    /\ timeout_handle = [t \in Txs |-> "None"]
    /\ callb = [t \in Txs |-> NoRoute]
    /\ callbacks = {}
    /\ pc = [t \in Txs |-> "idle"]
    /\ running = NoTx
    /\ starts = 0
    /\ sent = [t \in Txs |-> 0]
    /\ received = 0
    /\ delivered = [t \in Txs |-> <<>>]
    /\ hooks = [t \in Txs |-> <<>>]

LightNext ==
    \/ \E kw \in Kwargs : async_turn_on(kw)
    \/ async_turn_off
    \/ \E b \in {None} \cup {<<x>> : x \in Brightnesses},
          c \in {None} \cup {<<x>> : x \in RGBColors} : device_updated(b, c)

LightSpec == LightInit /\ [][LightNext]_lightvars

\* ---- vocabulary of the properties ----

\* the frame's body is an instance of the class t awaits
Matching(t, f) == f.body = awaited_response_class[t]

\* a callback of t is registered in the udp client
Registered(t) == \E r \in callbacks : r.callback = t

\* the frames response_rec_callback of t was called with
Calls(t) == {delivered[t][i] : i \in DOMAIN delivered[t]}

Hooked(t) == {hooks[t][i] : i \in DOMAIN hooks[t]}

\* response_rec_callback of t is called in this step, with LastCall(t)
Called(t) == Len(delivered'[t]) = Len(delivered[t]) + 1

LastCall(t) == delivered'[t][Len(delivered'[t])]

\* what happened to t, from the frames that reached its callback
Outcome(t) ==
    IF \E f \in Calls(t) : Matching(t, f) /\ f.status_code = E_NO_ERROR
      THEN "Success"
      ELSE IF \E f \in Calls(t) : Matching(t, f)
             THEN "Failure"
             ELSE "TimedOut"

\* what the caller of start() can read from the instance
Observable(t) == <<success[t], response_received_or_timeout[t]>>

\* ---- C1 ----
\* C1: when start() returns the transaction is terminal (the event is set),
\* and the success flag read at that moment does not change after the
\* return (for as long as start() is not called again on the instance),
\* whatever frames are dispatched and whatever timers fire later.
C1_OutcomeFixedAtReturn ==
    [][\A t \in Txs :
         /\ pc'[t] = "returned" => response_received_or_timeout'[t]
         /\ pc[t] = "returned" => success'[t] = success[t]]_vars

\* a start() returned after both the callback and the timeout ran, and a
\* further frame was dispatched that no longer reached the transaction
C1_Witness ==
    \E t \in Txs :
        /\ pc[t] = "returned"
        /\ timeout_handle[t] = "fired"
        /\ delivered[t] # <<>>
        /\ received > delivered[t][Len(delivered[t])].id

\* ---- C2 ----
\* C2: once timeout() has set the event of a transaction, a frame delivered
\* to response_rec_callback changes neither the success flag nor the hook
\* invocations.
C2_LateFrameIgnored ==
    [][\A t \in Txs :
         timeout_handle[t] = "fired" =>
             /\ success'[t] = success[t]
             /\ hooks'[t] = hooks[t]]_vars

\* ---- C3 ----
\* C3: an armed transaction whose task is not cancelled eventually returns
\* from start(), and a start() that returned without any awaited frame having
\* reached the callback has success False.
C3_StartReturns ==
    \A t \in Txs :
        (pc[t] = "armed") ~>
            \/ pc[t] = "cancelled"
            \/ /\ pc[t] = "returned"
               /\ (\A f \in Calls(t) : ~Matching(t, f)) => ~success[t]

\* start() returned because the timer fired, no frame ever reached it
C3_Witness ==
    \E t \in Txs :
        /\ pc[t] = "returned"
        /\ timeout_handle[t] = "fired"
        /\ delivered[t] = <<>>
        /\ ~success[t]

\* ---- C4 ----
\* C4: the request is handed to udpclient.send only while the callback is
\* registered, and whenever start() returns no callback of the transaction is
\* registered.
C4_RouteAroundRequest ==
    [][\A t \in Txs :
         /\ sent'[t] # sent[t] => Registered(t) /\ callb[t] \in callbacks
         /\ pc'[t] = "returned" => ~Registered(t)']_vars

\* a start() has returned while the other transaction is still registered
C4_Witness ==
    \E t, u \in Txs :
        /\ pc[t] = "returned"
        /\ sent[t] > 0
        /\ ~Registered(t)
        /\ Registered(u)

\* ---- C5 ----
\* C5: after the task running start() was cancelled in wait(), no callback of
\* the transaction is registered and its timer is not pending.
C5_TeardownOnCancel ==
    \A t \in Txs :
        pc[t] = "cancelled" =>
            ~Registered(t) /\ timeout_handle[t] # "scheduled"

\* ---- C6 ----
\* C6: after send_request raised, the timer is not armed and no callback of
\* the transaction is registered.
C6_NothingLeftOnSendFailure ==
    \A t \in Txs :
        pc[t] = "raised" =>
            timeout_handle[t] # "scheduled" /\ ~Registered(t)

\* ---- C7 ----
\* C7: an awaited frame with E_NO_ERROR that reaches the callback before the
\* timer fired sets success and invokes on_success_hook with that frame;
\* success and the hook invocations are kept until start() returns; the
\* timer is not pending when start() returns and timeout() never runs after
\* start() has returned.
C7_SuccessBeforeTimeout ==
    [][\A t \in Txs :
         /\ (/\ Called(t)
             /\ Matching(t, LastCall(t))
             /\ LastCall(t).status_code = E_NO_ERROR
             /\ timeout_handle[t] # "fired")
            => /\ success'[t]
               /\ hooks'[t] = Append(hooks[t], [hook |-> "on_success_hook",
                                                frame |-> LastCall(t)])
         /\ success[t] => success'[t]
         /\ SubSeq(hooks'[t], 1, Len(hooks[t])) = hooks[t]
         /\ pc'[t] = "returned" => timeout_handle'[t] # "scheduled"
         /\ pc[t] = "returned" =>
              ~(timeout_handle[t] # "fired" /\ timeout_handle'[t] = "fired")]_vars

\* start() returned with success after a response, the timer was cancelled
\* before it fired
C7_Witness ==
    \E t \in Txs :
        /\ pc[t] = "returned"
        /\ success[t]
        /\ timeout_handle[t] = "cancelled"
        /\ Len(delivered[t]) = 1
        /\ Matching(t, delivered[t][1])
        /\ delivered[t][1].status_code = E_NO_ERROR
        /\ hooks[t] = <<[hook |-> "on_success_hook", frame |-> delivered[t][1]]>>

\* ---- C8 ----
\* C8: a frame of the awaited class with a status other than E_NO_ERROR that
\* reaches a pending transaction sets the event, leaves success False and
\* invokes on_error_hook with that frame and nothing else.
C8_ErrorResponse ==
    [][\A t \in Txs :
         (/\ Called(t)
          /\ ~response_received_or_timeout[t]
          /\ Matching(t, LastCall(t))
          /\ LastCall(t).status_code # E_NO_ERROR)
         => /\ response_received_or_timeout'[t]
            /\ ~success'[t]
            /\ hooks'[t] = Append(hooks[t], [hook |-> "on_error_hook",
                                             frame |-> LastCall(t)])]_vars

\* an error-status response completed a transaction that was pending (it is
\* the only frame that reached it and the timer has not fired)
C8_Witness ==
    \E t \in Txs :
        /\ Len(delivered[t]) = 1
        /\ Matching(t, delivered[t][1])
        /\ delivered[t][1].status_code # E_NO_ERROR
        /\ timeout_handle[t] = "scheduled"
        /\ response_received_or_timeout[t]
        /\ ~success[t]
        /\ hooks[t] = <<[hook |-> "on_error_hook", frame |-> delivered[t][1]]>>

C10_MismatchIgnored ==
    [][\A t \in Txs :
         (Called(t) /\ ~Matching(t, LastCall(t)))
         => /\ response_received_or_timeout'[t] = response_received_or_timeout[t]
            /\ success'[t] = success[t]
            /\ hooks'[t] = hooks[t]
            /\ pc'[t] = pc[t]]_vars

\* a mismatched frame reached a waiting transaction, which kept waiting and
\* was completed by a later frame of the awaited class before the timer fired
C10_Witness ==
    \E t \in Txs :
        /\ Len(delivered[t]) = 2
        /\ ~Matching(t, delivered[t][1])
        /\ Matching(t, delivered[t][2])
        /\ timeout_handle[t] = "scheduled"
        /\ pc[t] = "waiting"
        /\ response_received_or_timeout[t]

\* ---- C11 ----
\* C11: when timeout() runs on a suspended transaction whose event is already
\* set, the event stays set, the success flag keeps its value, no hook is
\* invoked and start() stays where it is.
C11_LateTimeoutNoOp ==
    [][\A t \in Txs :
         (/\ timeout_handle[t] = "scheduled"
          /\ timeout_handle'[t] = "fired"
          /\ response_received_or_timeout[t])
         => /\ response_received_or_timeout'[t]
            /\ success'[t] = success[t]
            /\ hooks'[t] = hooks[t]
            /\ delivered'[t] = delivered[t]
            /\ pc'[t] = pc[t]]_vars

\* a successful response and the timeout both ran while start() was still
\* suspended; success is the value set by the response
C11_Witness ==
    \E t \in Txs :
        /\ pc[t] = "waiting"
        /\ timeout_handle[t] = "fired"
        /\ success[t]
        /\ Len(delivered[t]) = 1
        /\ hooks[t] = <<[hook |-> "on_success_hook", frame |-> delivered[t][1]]>>

\* ---- C12 ----
\* C12: over the frames dispatched to a transaction whose start() neither
\* raised nor was cancelled, on_success_hook and on_error_hook are invoked
\* at most once in total.
C12_NoDoubleFire ==
    \A t \in Txs :
        pc[t] \notin {"raised", "cancelled"} => Len(hooks[t]) <= 1

\* ---- C13 ----
\* C13: the steps of start() come in the order register, send, arm, wait,
\* cancel, unregister: the callback is registered when start() begins, the
\* request is sent while it is registered, the timer is armed right after
\* the send, the wait begins with the timer armed, stop_timeout never finds
\* timeout_handle None, and the callback is removed only after the timer was
\* cancelled.
C13_StepOrder ==
    [][\A t \in Txs :
         /\ (~Registered(t) /\ Registered(t)')
              => pc[t] \in {"idle", "returned"} /\ pc'[t] = "registered"
         /\ sent'[t] # sent[t]
              => pc[t] = "registered" /\ pc'[t] = "sent" /\ Registered(t)
         /\ (timeout_handle[t] # "scheduled" /\ timeout_handle'[t] = "scheduled")
              => pc[t] = "sent" /\ pc'[t] = "armed"
         /\ (pc[t] # "waiting" /\ pc'[t] = "waiting")
              => pc[t] = "armed" /\ timeout_handle[t] = "scheduled"
         /\ pc'[t] = "woken" => timeout_handle'[t] # "None"
         /\ (timeout_handle[t] = "scheduled" /\ timeout_handle'[t] = "cancelled")
              => pc[t] = "woken" /\ pc'[t] = "stopped" /\ Registered(t)'
         /\ (Registered(t) /\ ~Registered(t)')
              => /\ pc[t] = "stopped"
                 /\ pc'[t] = "returned"
                 /\ timeout_handle[t] \in {"cancelled", "fired"}]_vars

\* a start() went through all its steps and cancelled a pending timer
C13_Witness ==
    \E t \in Txs :
        /\ pc[t] = "returned"
        /\ sent[t] = 1
        /\ timeout_handle[t] = "cancelled"
        /\ ~Registered(t)

\* ---- C14 ----
\* C14: with two transactions awaiting different classes, a frame carrying
\* the service type of the one never reaches the callback of the other, a
\* frame whose body is of the class of the one changes nothing in the other,
\* and a dispatched frame that does not reach a transaction leaves its event,
\* success flag and hook invocations as they were.
C14_DifferentTypesIndependent ==
    [][\A t, u \in Txs :
         awaited_response_class[t] # awaited_response_class[u]
         => /\ Called(u) =>
                 LastCall(u).service_type # service_type(awaited_response_class[t])
            /\ ((Called(u) /\ LastCall(u).body = awaited_response_class[t])
                \/ (received' # received /\ ~Called(u)))
               => /\ response_received_or_timeout'[u]
                       = response_received_or_timeout[u]
                  /\ success'[u] = success[u]
                  /\ hooks'[u] = hooks[u]]_vars

\* both transactions are in flight, the frame awaited by one of them
\* completed it and the other one is still pending and untouched
C14_Witness ==
    \E t, u \in Txs :
        /\ awaited_response_class[t] # awaited_response_class[u]
        /\ pc[t] = "waiting" /\ pc[u] = "waiting"
        /\ Len(delivered[t]) = 1
        /\ Matching(t, delivered[t][1])
        /\ response_received_or_timeout[t]
        /\ timeout_handle[t] = "scheduled"
        /\ delivered[u] = <<>>
        /\ ~response_received_or_timeout[u]
        /\ hooks[u] = <<>>

\* ---- C15 ----
\* C15: with two transactions awaiting the same class both suspended in
\* wait(), one dispatched frame of that class reaches both callbacks, sets
\* both events, calls the same hook with it in both and, with E_NO_ERROR,
\* sets both success flags.
C15_SameTypeShared ==
    [][\A t, u \in Txs :
         (/\ t # u
          /\ awaited_response_class[t] = awaited_response_class[u]
          /\ pc[t] = "waiting" /\ pc[u] = "waiting"
          /\ Called(t)
          /\ Matching(t, LastCall(t)))
         => /\ Called(u)
            /\ LastCall(u) = LastCall(t)
            /\ response_received_or_timeout'[t]
            /\ response_received_or_timeout'[u]
            /\ LastCall(t).status_code = E_NO_ERROR
                 => /\ success'[t] /\ success'[u]
                    /\ \A x \in {t, u} :
                         hooks'[x] = Append(hooks[x],
                            [hook |-> "on_success_hook", frame |-> LastCall(t)])
            /\ LastCall(t).status_code # E_NO_ERROR
                 => \A x \in {t, u} :
                         hooks'[x] = Append(hooks[x],
                            [hook |-> "on_error_hook", frame |-> LastCall(t)])]_vars

\* one frame has completed both pending transactions
C15_Witness ==
    \E t, u \in Txs :
        /\ t # u
        /\ awaited_response_class[t] = awaited_response_class[u]
        /\ pc[t] = "waiting" /\ pc[u] = "waiting"
        /\ received = 1
        /\ Len(delivered[t]) = 1
        /\ delivered[u] = delivered[t]
        /\ Matching(t, delivered[t][1])
        /\ delivered[t][1].status_code = E_NO_ERROR
        /\ success[t] /\ success[u]
        /\ response_received_or_timeout[t] /\ response_received_or_timeout[u]
        /\ timeout_handle[t] = "scheduled" /\ timeout_handle[u] = "scheduled"

\* ---- C16 ----
\* C16: when start() resumes from wait() and the timer has not fired (it was
\* a response that set the event), a frame of the awaited class has reached
\* the callback, and for every such frame the hook has been invoked and, with
\* E_NO_ERROR, the success flag is set.
C16_OutcomeBeforeResume ==
    [][\A t \in Txs :
         (pc[t] = "waiting" /\ pc'[t] = "woken" /\ timeout_handle[t] = "scheduled")
         => /\ \E f \in Calls(t) : Matching(t, f)
            /\ \A f \in Calls(t) :
                 Matching(t, f) =>
                    IF f.status_code = E_NO_ERROR
                      THEN /\ success[t]
                           /\ [hook |-> "on_success_hook", frame |-> f]
                                \in Hooked(t)
                      ELSE [hook |-> "on_error_hook", frame |-> f] \in Hooked(t)
            /\ success'[t] = success[t]
            /\ hooks'[t] = hooks[t]]_vars

\* start() has resumed after a successful response, the timer still pending
C16_Witness ==
    \E t \in Txs :
        /\ pc[t] = "woken"
        /\ sent[t] = 1
        /\ timeout_handle[t] = "scheduled"
        /\ success[t]
        /\ hooks[t] # <<>>

\* ---- C17 ----
\* C17: success is True only if response_rec_callback was called with a frame
\* of the awaited class whose status code is E_NO_ERROR.
C17_NoSpuriousSuccess ==
    \A t \in Txs :
        success[t] =>
            \E f \in Calls(t) : Matching(t, f) /\ f.status_code = E_NO_ERROR

\* one transaction succeeded with an awaited E_NO_ERROR frame; the other
\* one got an error-status frame and its timeout and has success False
C17_Witness ==
    \E t, u \in Txs :
        /\ success[u]
        /\ \E f \in Calls(u) : Matching(u, f) /\ f.status_code = E_NO_ERROR
        /\ ~success[t]
        /\ timeout_handle[t] = "fired"
        /\ \E f \in Calls(t) : Matching(t, f) /\ f.status_code # E_NO_ERROR

\* ---- C18 ----
\* C18: the event is never cleared and success never reverts; a further
\* start() on an instance whose start() has returned registers again, sends
\* again and arms the timer again, never suspends in wait(), and leaves the
\* success flag, the hook invocations and the received frames of the first
\* run as they were.
C18_SingleShot ==
    [][\A t \in Txs :
         /\ response_received_or_timeout[t] => response_received_or_timeout'[t]
         /\ success[t] => success'[t]
         /\ (pc[t] = "returned" /\ pc'[t] # "returned")
              => pc'[t] = "registered" /\ Registered(t)'
         /\ (sent[t] >= 1 /\ pc[t] = "registered" /\ pc'[t] = "sent")
              => sent'[t] = sent[t] + 1
         /\ (sent[t] >= 2 /\ pc[t] = "sent")
              => pc'[t] = "armed" /\ timeout_handle'[t] = "scheduled"
         /\ sent[t] >= 2 => pc'[t] \notin {"waiting", "cancelled"}
         /\ ((sent[t] >= 2 \/ pc[t] = "returned") /\ pc'[t] # "raised"
                /\ pc[t] # "raised")
              => /\ success'[t] = success[t]
                 /\ hooks'[t] = hooks[t]
                 /\ delivered'[t] = delivered[t]]_vars

\* a second start() has returned on an instance that had succeeded
C18_Witness ==
    \E t \in Txs :
        /\ pc[t] = "returned"
        /\ sent[t] = 2
        /\ success[t]
        /\ timeout_handle[t] = "cancelled"
        /\ ~Registered(t)

\* ---- C19 ----
\* C19: after every async_turn_on exactly one of device.set_brightness,
\* device.set_color and device.set_on was invoked: set_brightness only if the
\* device supports brightness and brightness but not colour was requested,
\* set_color only if the device supports colour and brightness or colour was
\* requested, and set_on in every other case.
C19_ExactlyOnePath ==
    request.service = "turn_on" =>
        LET update_brightness == request.brightness # None
            update_color == request.hs_color # None
            for_brightness ==
                device.supports_brightness /\ update_brightness /\ ~update_color
            for_color == device.supports_color /\ (update_brightness \/ update_color)
        IN  /\ Len(invoked) = 1
            /\ invoked[1].method \in {"set_brightness", "set_color", "set_on"}
            /\ invoked[1].method = "set_brightness" => for_brightness
            /\ invoked[1].method = "set_color" => for_color
            /\ (~for_brightness /\ ~for_color) => invoked[1].method = "set_on"
====
